---- MODULE Spec2Model ----
(***************************************************************************)
(* rflatten (src/src/main.rs): flatten a directory tree by moving every    *)
(* file found below the root into the root, renaming on collision, and     *)
(* removing the top-level directories recorded by the summary pass.        *)
(*                                                                         *)
(* A file name is a sequence of one-character strings, a path is the       *)
(* sequence of names below the canonical root (the root itself is <<>>),   *)
(* and the filesystem is a function from the existing paths to            *)
(* [kind, content].  The content of a file is the path at which it lay     *)
(* when the program started, so every file has a content of its own.       *)
(***************************************************************************)
EXTENDS Integers, Sequences, FiniteSets, TLC

VARIABLES
    fs,           \* the tree under the root: path -> [kind, content]
    fs0,          \* the tree as it was found (history)
    cli,          \* the parsed command line (struct Cli)
    pc,           \* position of main
    stack,        \* the active calls of the running recursive walk
    summary,      \* FileSummary: file_count, top_level_dirs
    moved_count,  \* flatten_directory_by_traversal's counter
    todo,         \* top-level directory names the cleanup loop has yet to visit
    counted,      \* paths the summary pass counted (history)
    attempts,     \* renames tried by the flatten pass, in order (history)
    removals,     \* directory names the cleanup loop tried to remove (history)
    typed,        \* the line get_confirmation has read
    run,          \* "first", or "second" when the program has been started again
    fnIn,         \* arguments of a direct call of a filter function
    fnOut         \* which function was called, and its result

vars == <<fs, fs0, cli, pc, stack, summary, moved_count, todo, counted,
          attempts, removals, typed, run, fnIn, fnOut>>

runVars == <<fs, fs0, cli, pc, stack, summary, moved_count, todo, counted,
             attempts, removals, typed, run>>

-----------------------------------------------------------------------------
(* Bounds of the model *)

\* directory levels below the root in the trees the program is started on
MaxTreeDepth == 2
\* regular files in the trees the program is started on
MaxFiles == 3
\* largest value given to -n/--depth
MaxDepthArg == 1
\* renames and removals the environment may refuse in one run
MaxFailures == 1
\* length of the names and patterns handed to the filter functions directly
MaxNameLen == 3

-----------------------------------------------------------------------------
(* Names *)

S    == <<"s">>
DS   == <<"d", "s">>
TX   == <<"t", ".", "x">>
T1X  == <<"t", "_", "1", ".", "x">>

Root == <<>>

NoneStr == [some |-> FALSE, v |-> <<>>]
SomeStr(s) == [some |-> TRUE, v |-> s]
NoneNum == [some |-> FALSE, v |-> 0]
SomeNum(n) == [some |-> TRUE, v |-> n]
NonePats == [some |-> FALSE, v |-> {}]
SomePats(ps) == [some |-> TRUE, v |-> ps]

\* the capital letters and their small letters
Small ==
    "A" :> "a" @@ "B" :> "b" @@ "C" :> "c" @@ "D" :> "d" @@ "E" :> "e" @@ "F" :> "f"
    @@ "G" :> "g" @@ "H" :> "h" @@ "I" :> "i" @@ "J" :> "j" @@ "K" :> "k" @@ "L" :> "l"
    @@ "M" :> "m" @@ "N" :> "n" @@ "O" :> "o" @@ "P" :> "p" @@ "Q" :> "q" @@ "R" :> "r"
    @@ "S" :> "s" @@ "T" :> "t" @@ "U" :> "u" @@ "V" :> "v" @@ "W" :> "w" @@ "X" :> "x"
    @@ "Y" :> "y" @@ "Z" :> "z"

\* the small letters and their capital letters
Capital ==
    "a" :> "A" @@ "b" :> "B" @@ "c" :> "C" @@ "d" :> "D" @@ "e" :> "E" @@ "f" :> "F"
    @@ "g" :> "G" @@ "h" :> "H" @@ "i" :> "I" @@ "j" :> "J" @@ "k" :> "K" @@ "l" :> "L"
    @@ "m" :> "M" @@ "n" :> "N" @@ "o" :> "O" @@ "p" :> "P" @@ "q" :> "Q" @@ "r" :> "R"
    @@ "s" :> "S" @@ "t" :> "T" @@ "u" :> "U" @@ "v" :> "V" @@ "w" :> "W" @@ "x" :> "X"
    @@ "y" :> "Y" @@ "z" :> "Z"

\* char::to_lowercase: every capital letter to its small letter, any other
\* character to itself (the characters of the model are ASCII)
LowerChar(c) == IF c \in DOMAIN Small THEN Small[c] ELSE c

\* char::to_uppercase: every small letter to its capital letter, any other
\* character to itself (the characters of the model are ASCII)
UpperChar(c) == IF c \in DOMAIN Capital THEN Capital[c] ELSE c

to_lowercase(s) == [i \in 1..Len(s) |-> LowerChar(s[i])]

to_uppercase(s) == [i \in 1..Len(s) |-> UpperChar(s[i])]

\* str::starts_with
starts_with(s, p) == Len(p) <= Len(s) /\ SubSeq(s, 1, Len(p)) = p

\* a variant that finds the pattern anywhere in the target
starts_with_pattern_anywhere(target, pattern) ==
    \E k \in 0..Len(target) :
        starts_with(SubSeq(to_lowercase(target), k + 1, Len(target)), to_lowercase(pattern))

starts_with_pattern(target, pattern) ==
    starts_with(to_lowercase(target), to_lowercase(pattern))

\* a variant whose exclude branch keeps the directories it should reject
should_include_exclude_kept(dir_name, include, exclude) ==
    IF include.some
    THEN \E p \in include.v : starts_with_pattern(dir_name, p)
    ELSE IF exclude.some
         THEN \E p \in exclude.v : starts_with_pattern(dir_name, p)
         ELSE TRUE

should_include_top_level_dir(dir_name, include, exclude) ==
    IF include.some
    THEN \E p \in include.v : starts_with_pattern(dir_name, p)
    ELSE IF exclude.some
         THEN ~ \E p \in exclude.v : starts_with_pattern(dir_name, p)
         ELSE TRUE

-----------------------------------------------------------------------------
(* Destination names *)

Digit(d) ==
    CASE d = 0 -> "0" [] d = 1 -> "1" [] d = 2 -> "2" [] d = 3 -> "3"
      [] d = 4 -> "4" [] d = 5 -> "5" [] d = 6 -> "6" [] d = 7 -> "7"
      [] d = 8 -> "8" [] d = 9 -> "9"

\* the decimal digits format!("{}", counter) writes
RECURSIVE Decimal(_)
Decimal(n) == IF n < 10 THEN <<Digit(n)>> ELSE Decimal(n \div 10) \o <<Digit(n % 10)>>

\* index of the final '.' of a name, 0 when it has none
LastDot(name) ==
    LET dots == {i \in 1..Len(name) : name[i] = "."}
    IN IF dots = {} THEN 0 ELSE CHOOSE i \in dots : \A j \in dots : j <= i

\* Path::file_stem: the whole name when it has no '.', or when its only '.' is
\* its first character; otherwise what precedes the final '.'
file_stem(name) ==
    IF LastDot(name) <= 1 THEN name ELSE SubSeq(name, 1, LastDot(name) - 1)

\* a variant that takes what follows the final '.' wherever that '.' is
extension_after_any_dot(name) ==
    IF LastDot(name) = 0 THEN <<>> ELSE SubSeq(name, LastDot(name) + 1, Len(name))

\* Path::extension, with unwrap_or(""): what follows the final '.', and ""
\* when file_stem is the whole name
extension(name) ==
    IF LastDot(name) <= 1 THEN <<>> ELSE SubSeq(name, LastDot(name) + 1, Len(name))

new_name(file_name, counter) ==
    IF extension(file_name) = <<>>
    THEN file_stem(file_name) \o <<"_">> \o Decimal(counter)
    ELSE file_stem(file_name) \o <<"_">> \o Decimal(counter) \o <<".">> \o extension(file_name)

-----------------------------------------------------------------------------
(* Filesystem primitives *)

exists(f, p) == p \in DOMAIN f

is_dir(f, p) == p \in DOMAIN f /\ f[p].kind = "dir"

is_file(f, p) == p \in DOMAIN f /\ f[p].kind = "file"

IsUnder(p, d) == Len(p) > Len(d) /\ SubSeq(p, 1, Len(d)) = d

file_name(p) == p[Len(p)]

parent(p) == SubSeq(p, 1, Len(p) - 1)

\* fs::read_dir: the names of the entries of a directory
read_dir(f, d) == {file_name(p) : p \in {q \in DOMAIN f : parent(q) = d /\ Len(q) > 0}}

\* fs::rename of a file to a path that holds nothing
rename(f, src, dest) ==
    [q \in (DOMAIN f \ {src}) \cup {dest} |-> IF q = dest THEN f[src] ELSE f[q]]

\* a variant that removes a directory only when it holds nothing (fs::remove_dir)
remove_dir_if_empty(f, d) ==
    IF \E p \in DOMAIN f : IsUnder(p, d)
    THEN f
    ELSE [q \in DOMAIN f \ {d} |-> f[q]]

\* fs::remove_dir_all
remove_dir_all(f, d) ==
    [q \in {p \in DOMAIN f : p # d /\ ~ IsUnder(p, d)} |-> f[q]]

\* a variant that probes once and takes the next candidate unseen
resolve_dest_once(f, name, dest, counter) ==
    IF exists(f, dest) THEN Root \o <<new_name(name, counter)>> ELSE dest

\* fs::remove_dir_all that fails: the directory is still there, and any part
\* of what it held may have been removed before the error
failed_removals(f, d) ==
    {[q \in DOMAIN f \ gone |-> f[q]] :
        gone \in {X \in SUBSET {p \in DOMAIN f : IsUnder(p, d)} :
                    \A p \in X : \A q \in DOMAIN f : IsUnder(q, p) => q \in X}}

\* the while loop of lines 275-293: the first candidate that does not exist
RECURSIVE resolve_dest(_, _, _, _)
resolve_dest(f, name, dest, counter) ==
    IF exists(f, dest)
    THEN resolve_dest(f, name, Root \o <<new_name(name, counter)>>, counter + 1)
    ELSE dest

-----------------------------------------------------------------------------
(* The trees and command lines the program is started on *)

\* s, s/ds, s/ds/ds, ... : a chain of nested directories below the top-level s
Chain(n) == [i \in 1..n |-> IF i = 1 THEN S ELSE DS]

\* the directories that may hold files: the chain, and a second top-level one
DirUniverse == {Chain(n) : n \in 1..MaxTreeDepth} \cup {<<DS>>}

\* a top-level directory that may exist without holding anything; it bears the
\* name of a file
EmptyDirs == {<<TX>>}

\* t.x anywhere, t_1.x in the root and in s
FileSlots ==
    {d \o <<TX>> : d \in {Root} \cup DirUniverse} \cup {<<T1X>>, <<S, T1X>>}

Prefixes(P) == UNION {{SubSeq(p, 1, k) : k \in 1..Len(p)} : p \in P}

MkTree(F, D) ==
    [p \in F \cup D |-> IF p \in F THEN [kind |-> "file", content |-> p]
                                   ELSE [kind |-> "dir", content |-> <<>>]]

\* every tree of at most MaxFiles files in the slots, with or without the
\* empty directories
Trees ==
    {MkTree(FE[1], Prefixes({parent(p) : p \in FE[1]}) \cup FE[2]) :
        FE \in {X \in (SUBSET FileSlots) \X (SUBSET EmptyDirs) :
                    /\ Cardinality(X[1]) <= MaxFiles
                    /\ X[1] \cap X[2] = {}}}

DepthArgs == {NoneNum} \cup {SomeNum(n) : n \in 0..MaxDepthArg}

IncludeArgs == {NonePats, SomePats({<<"S">>})}

ExcludeArgs == {NonePats, SomePats({<<"D">>})}

DirectoryArgs == {"dir", "file", "missing"}

\* neither -y nor -q, -y, -q
FlagArgs == {<<FALSE, FALSE>>, <<TRUE, FALSE>>, <<FALSE, TRUE>>}

Clis ==
    {[directory |-> d, max_depth |-> n, skip_confirmation |-> yq[1], quiet |-> yq[2],
      include |-> i, exclude |-> e] :
        d \in DirectoryArgs, n \in DepthArgs, yq \in FlagArgs,
        i \in IncludeArgs, e \in ExcludeArgs}

\* the character U+000B, vertical tab, which has no escape in a string
VerticalTab == ""

\* what the operator may type at the prompt
Inputs ==
    {<<"y", "\n">>, <<"y", "\r", "\n">>, <<" ", "Y", "e", "s", "\n">>,
     <<"y", VerticalTab, "\n">>, <<"n", "\n">>, <<"\n">>}

NoCall == [fn |-> "none"]

-----------------------------------------------------------------------------
(* State *)

Frame(current, depth, top, f) ==
    [current |-> current, depth |-> depth, top |-> top, pending |-> read_dir(f, current)]

Top == stack[Len(stack)]

Pop == SubSeq(stack, 1, Len(stack) - 1)

\* the loop of the running call moves past entry n
Advance(n) == [stack EXCEPT ![Len(stack)].pending = @ \ {n}]

Init ==
    /\ fs \in Trees
    /\ fs0 = fs
    /\ cli \in Clis
    /\ pc = "start"
    /\ stack = <<>>
    /\ summary = [file_count |-> 0, top_level_dirs |-> {}]
    /\ moved_count = 0
    /\ todo = {}
    /\ counted = {}
    /\ attempts = <<>>
    /\ removals = <<>>
    /\ typed = NoneStr
    /\ run = "first"
    /\ fnIn = NoCall
    /\ fnOut = NoCall

-----------------------------------------------------------------------------
(* main, up to the summary pass *)

\* lines 313-342: the usage checks and canonicalize, which may fail; then
\* collect_file_summary is called
Validate ==
    /\ pc = "start"
    /\ IF cli.include.some /\ cli.exclude.some
       THEN pc' = "exit1" /\ stack' = stack
       ELSE IF cli.directory # "dir"
            THEN pc' = "exit1" /\ stack' = stack
            ELSE \E canonical \in BOOLEAN :
                   IF canonical
                   THEN pc' = "summary" /\ stack' = <<Frame(Root, 0, NoneStr, fs)>>
                   ELSE pc' = "error" /\ stack' = stack
    /\ UNCHANGED <<fs, fs0, cli, summary, moved_count, todo, counted, attempts,
                   removals, typed, run, fnIn, fnOut>>

\* a variant that stops one level early
TooDeepOffByOne(depth) == cli.max_depth.some /\ depth >= cli.max_depth.v

\* the call made for a subdirectory returns at once when it lies deeper than
\* max_depth (lines 118-122, 221-225)
TooDeep(depth) == cli.max_depth.some /\ depth > cli.max_depth.v

-----------------------------------------------------------------------------
(* SummaryPass: collect_file_summary_recursive *)

\* lines 131-141: a directory of the root that the filter rejects is passed over
\* (every name of the model is valid UTF-8, so to_str never fails)
summary_skips(current, n) ==
    current = Root /\ ~ should_include_top_level_dir(n, cli.include, cli.exclude)

\* a variant that counts the files of the root as well
counts_file_anywhere(path) == TRUE

\* line 160: only files that are not directly in the root are counted
counts_file(path) == parent(path) # Root

\* lines 129-157: a directory entry
SummaryDir ==
    /\ pc = "summary"
    /\ stack # <<>>
    /\ \E n \in Top.pending :
         LET path == Top.current \o <<n>>
             new_top_level_dir == IF Top.current = Root THEN SomeStr(n) ELSE Top.top
         IN /\ is_dir(fs, path)
            /\ stack' = IF summary_skips(Top.current, n) \/ TooDeep(Top.depth + 1)
                        THEN Advance(n)
                        ELSE Advance(n) \o <<Frame(path, Top.depth + 1, new_top_level_dir, fs)>>
    /\ UNCHANGED <<fs, fs0, cli, pc, summary, moved_count, todo, counted, attempts,
                   removals, typed, run, fnIn, fnOut>>

\* lines 158-168: a file entry
SummaryFile ==
    /\ pc = "summary"
    /\ stack # <<>>
    /\ \E n \in Top.pending :
         LET path == Top.current \o <<n>>
         IN /\ is_file(fs, path)
            /\ stack' = Advance(n)
            /\ IF counts_file(path)
               THEN /\ summary' = [file_count |-> summary.file_count + 1,
                                   top_level_dirs |->
                                       IF Top.top.some
                                       THEN summary.top_level_dirs \cup {Top.top.v}
                                       ELSE summary.top_level_dirs]
                    /\ counted' = counted \cup {path}
               ELSE UNCHANGED <<summary, counted>>
    /\ UNCHANGED <<fs, fs0, cli, pc, moved_count, todo, attempts, removals, typed, run, fnIn, fnOut>>

\* line 171: a call made for a subdirectory has gone through its entries
SummaryReturn ==
    /\ pc = "summary"
    /\ Len(stack) > 1
    /\ Top.pending = {}
    /\ stack' = Pop
    /\ UNCHANGED <<fs, fs0, cli, pc, summary, moved_count, todo, counted, attempts,
                   removals, typed, run, fnIn, fnOut>>

\* the ? of lines 103 and 342: the error leaves collect_file_summary and main
on_summary_error(sum) == "error"

\* lines 124-127, 157: read_dir, the next entry or its file_type fails in
\* whichever call is running, and every caller hands the error on
SummaryError ==
    /\ pc = "summary"
    /\ stack # <<>>
    /\ pc' = on_summary_error(summary)
    /\ stack' = <<>>
    /\ UNCHANGED <<fs, fs0, cli, summary, moved_count, todo, counted, attempts,
                   removals, typed, run, fnIn, fnOut>>

\* lines 344-384: the summary is back in main; nothing to do, or the prompt,
\* or straight on to flatten_directory_by_traversal
SummaryEnd ==
    /\ pc = "summary"
    /\ Len(stack) = 1
    /\ Top.pending = {}
    /\ IF summary.file_count = 0
       THEN pc' = "nothing" /\ stack' = <<>>
       ELSE IF ~ cli.skip_confirmation /\ ~ cli.quiet
            THEN pc' = "confirm" /\ stack' = <<>>
            ELSE pc' = "flatten" /\ stack' = <<Frame(Root, 0, NoneStr, fs)>>
    /\ UNCHANGED <<fs, fs0, cli, summary, moved_count, todo, counted, attempts,
                   removals, typed, run, fnIn, fnOut>>

-----------------------------------------------------------------------------
(* The prompt *)

\* char::is_whitespace on the characters of the model, which are ASCII:
\* U+0009 to U+000D (tab, line feed, vertical tab, form feed, carriage return)
\* and the blank
IsSpace(c) == c \in {"\t", "\n", VerticalTab, "\f", "\r", " "}

\* str::trim
RECURSIVE trim(_)
trim(s) ==
    IF s = <<>> THEN s
    ELSE IF IsSpace(Head(s)) THEN trim(Tail(s))
    ELSE IF IsSpace(s[Len(s)]) THEN trim(SubSeq(s, 1, Len(s) - 1))
    ELSE s

\* a variant that takes an empty answer for the default the prompt shows
get_confirmation_default_yes(input) ==
    LET answer == to_uppercase(trim(input))
    IN answer = <<>> \/ answer = <<"Y">> \/ answer = <<"Y", "E", "S">>

\* lines 174-183, on the line the operator typed
get_confirmation(input) ==
    LET answer == to_uppercase(trim(input))
    IN answer = <<"Y">> \/ answer = <<"Y", "E", "S">>

\* lines 175-179: the prompt is written and a line is read, or either fails
ReadLine ==
    /\ pc = "confirm"
    /\ \/ \E line \in Inputs : pc' = "answered" /\ typed' = SomeStr(line)
       \/ pc' = "error" /\ typed' = typed
    /\ UNCHANGED <<fs, fs0, cli, stack, summary, moved_count, todo, counted, attempts,
                   removals, run, fnIn, fnOut>>

\* lines 180-182 and 370-384: the answer decides
Confirm ==
    /\ pc = "answered"
    /\ IF get_confirmation(typed.v)
       THEN pc' = "flatten" /\ stack' = <<Frame(Root, 0, NoneStr, fs)>>
       ELSE pc' = "cancelled" /\ stack' = stack
    /\ typed' = NoneStr
    /\ UNCHANGED <<fs, fs0, cli, summary, moved_count, todo, counted, attempts,
                   removals, run, fnIn, fnOut>>

-----------------------------------------------------------------------------
(* FlattenPass: flatten_directory_by_traversal_recursive *)

\* a variant that applies the filter to the directories of every level
flatten_skips_at_every_level(current, n) ==
    ~ should_include_top_level_dir(n, cli.include, cli.exclude)

\* lines 234-244: a directory of the root that the filter rejects is passed over
flatten_skips(current, n) ==
    current = Root /\ ~ should_include_top_level_dir(n, cli.include, cli.exclude)

\* lines 232-261: a directory entry
FlattenDir ==
    /\ pc = "flatten"
    /\ stack # <<>>
    /\ \E n \in Top.pending :
         LET path == Top.current \o <<n>>
             new_top_level_dir == IF Top.current = Root THEN SomeStr(n) ELSE Top.top
         IN /\ is_dir(fs, path)
            /\ stack' = IF flatten_skips(Top.current, n) \/ TooDeep(Top.depth + 1)
                        THEN Advance(n)
                        ELSE Advance(n) \o <<Frame(path, Top.depth + 1, new_top_level_dir, fs)>>
    /\ UNCHANGED <<fs, fs0, cli, pc, summary, moved_count, todo, counted, attempts,
                   removals, typed, run, fnIn, fnOut>>

\* a variant that moves the files of the root as well
moves_file_anywhere(path) == TRUE

\* line 264: only files that are not directly in the root are moved
moves_file(path) == parent(path) # Root

\* a variant that takes the base name without looking
destination_unprobed(f, name) == Root \o <<name>>

\* a variant that numbers the candidates from 0
destination_from_zero(f, name) == resolve_dest(f, name, Root \o <<name>>, 0)

\* lines 271-293: the destination of the file called name
destination(f, name) == resolve_dest(f, name, Root \o <<name>>, 1)

\* lines 295-305: the tree after the rename has succeeded or failed
after_rename(f, src, dest, ok) == IF ok THEN rename(f, src, dest) ELSE f

\* a variant that counts the renames tried
count_every_rename(count, ok) == count + 1

\* lines 295-305: the counter after the rename has succeeded or failed
count_after_rename(count, ok) == IF ok THEN count + 1 ELSE count

\* The listing of the root is still open while files arrive in the root: it
\* may or may not come to yield an entry created after it was opened.
RootListingAfter(stk, name, seen) ==
    IF seen THEN [stk EXCEPT ![1].pending = @ \cup {name}] ELSE stk

\* renames and removals the environment has refused so far
Failures ==
    Cardinality({i \in 1..Len(attempts) : ~ attempts[i].ok})
    + Cardinality({i \in 1..Len(removals) : ~ removals[i].ok})

\* lines 262-306: a file entry
FlattenFile ==
    /\ pc = "flatten"
    /\ stack # <<>>
    /\ \E n \in Top.pending :
         LET path == Top.current \o <<n>>
             dest == destination(fs, n)
         IN /\ is_file(fs, path)
            /\ IF moves_file(path)
               THEN \E ok \in BOOLEAN, seen \in BOOLEAN :
                      /\ seen => ok
                      /\ ~ ok => Failures < MaxFailures
                      /\ fs' = after_rename(fs, path, dest, ok)
                      /\ moved_count' = count_after_rename(moved_count, ok)
                      /\ attempts' = Append(attempts, [src |-> path, dest |-> dest, ok |-> ok])
                      /\ stack' = RootListingAfter(Advance(n), file_name(dest), seen)
               ELSE /\ stack' = Advance(n)
                    /\ UNCHANGED <<fs, moved_count, attempts>>
    /\ UNCHANGED <<fs0, cli, pc, summary, todo, counted, removals, typed, run, fnIn, fnOut>>

\* line 310: a call made for a subdirectory has gone through its entries
FlattenReturn ==
    /\ pc = "flatten"
    /\ Len(stack) > 1
    /\ Top.pending = {}
    /\ stack' = Pop
    /\ UNCHANGED <<fs, fs0, cli, pc, summary, moved_count, todo, counted, attempts,
                   removals, typed, run, fnIn, fnOut>>

\* a variant that passes over what cannot be read and goes on to the cleanup
on_flatten_error_skipped(sum) == [pc |-> "cleanup", todo |-> sum.top_level_dirs]

\* the ? of lines 205 and 384: the error leaves flatten_directory_by_traversal
\* and main, and the cleanup loop is not reached
on_flatten_error(sum) == [pc |-> "error", todo |-> {}]

\* lines 227-230, 261: read_dir, the next entry or its file_type fails in
\* whichever call is running, and every caller hands the error on
FlattenError ==
    /\ pc = "flatten"
    /\ stack # <<>>
    /\ pc' = on_flatten_error(summary).pc
    /\ todo' = on_flatten_error(summary).todo
    /\ stack' = <<>>
    /\ UNCHANGED <<fs, fs0, cli, summary, moved_count, counted, attempts, removals,
                   typed, run, fnIn, fnOut>>

\* a variant that looks for the directories to remove in the tree as it is now
dirs_to_remove_from_tree(f, sum) ==
    {q[1] : q \in {p \in DOMAIN f : Len(p) = 1 /\ f[p].kind = "dir"}}

\* line 391: the loop goes over the names the summary pass recorded
dirs_to_remove(f, sum) == sum.top_level_dirs

\* lines 384-391: the moved-count is back in main, the cleanup loop starts
FlattenEnd ==
    /\ pc = "flatten"
    /\ Len(stack) = 1
    /\ Top.pending = {}
    /\ pc' = "cleanup"
    /\ stack' = <<>>
    /\ todo' = dirs_to_remove(fs, summary)
    /\ UNCHANGED <<fs, fs0, cli, summary, moved_count, counted, attempts, removals,
                   typed, run, fnIn, fnOut>>

-----------------------------------------------------------------------------
(* Cleanup: the loop of lines 391-399 *)

\* one round of the loop, over the recorded names in the set's own order
Cleanup ==
    /\ pc = "cleanup"
    /\ \E dir \in todo :
         LET dir_path == Root \o <<dir>>
         IN /\ todo' = todo \ {dir}
            /\ IF exists(fs, dir_path) /\ is_dir(fs, dir_path)
               THEN \E ok \in BOOLEAN :
                      /\ ~ ok => Failures < MaxFailures
                      /\ fs' \in IF ok THEN {remove_dir_all(fs, dir_path)}
                                     ELSE failed_removals(fs, dir_path)
                      /\ removals' = Append(removals, [dir |-> dir, ok |-> ok])
               ELSE UNCHANGED <<fs, removals>>
    /\ UNCHANGED <<fs0, cli, pc, stack, summary, moved_count, counted, attempts,
                   typed, run, fnIn, fnOut>>

\* line 401
CleanupEnd ==
    /\ pc = "cleanup"
    /\ todo = {}
    /\ pc' = "done"
    /\ UNCHANGED <<fs, fs0, cli, stack, summary, moved_count, todo, counted, attempts,
                   removals, typed, run, fnIn, fnOut>>

\* The program is started again, with the same command line, on the tree left
\* by a complete run none of whose removals failed.
RunAgain ==
    /\ pc \in {"done", "nothing"}
    /\ run = "first"
    /\ \A i \in 1..Len(removals) : removals[i].ok
    /\ run' = "second"
    /\ fs0' = fs
    /\ pc' = "start"
    /\ stack' = <<>>
    /\ summary' = [file_count |-> 0, top_level_dirs |-> {}]
    /\ moved_count' = 0
    /\ todo' = {}
    /\ counted' = {}
    /\ attempts' = <<>>
    /\ removals' = <<>>
    /\ UNCHANGED <<fs, cli, typed, fnIn, fnOut>>

-----------------------------------------------------------------------------
(* The filter functions called on their own, as the unit tests call them *)

FnAlphabet == {"s", "S", "d", "D", "o", "O"}

\* every string of at most n letters
RECURSIVE Strings(_)
Strings(n) ==
    IF n = 0 THEN {<<>>}
    ELSE Strings(n - 1) \cup {Append(w, c) : w \in {x \in Strings(n - 1) : Len(x) = n - 1},
                                            c \in FnAlphabet}

FnNames == Strings(MaxNameLen)

\* a directory has a name of one letter at least
FnDirNames == FnNames \ {<<>>}

FnPatternSets == {NonePats} \cup {SomePats(ps) : ps \in SUBSET {<<>>, <<"s">>, <<"D">>, <<"d", "S">>}}

InitFn ==
    /\ fs = <<>>
    /\ fs0 = fs
    /\ cli = [directory |-> "dir", max_depth |-> NoneNum, skip_confirmation |-> FALSE,
              quiet |-> FALSE, include |-> NonePats, exclude |-> NonePats]
    /\ pc = "test"
    /\ stack = <<>>
    /\ summary = [file_count |-> 0, top_level_dirs |-> {}]
    /\ moved_count = 0
    /\ todo = {}
    /\ counted = {}
    /\ attempts = <<>>
    /\ removals = <<>>
    /\ typed = NoneStr
    /\ run = "first"
    /\ fnIn = NoCall
    /\ fnOut = NoCall

CallStartsWithPattern ==
    /\ pc = "test"
    /\ fnOut = NoCall
    /\ \E target \in FnDirNames, pattern \in FnNames :
         /\ fnIn' = [fn |-> "starts_with_pattern", target |-> target, pattern |-> pattern]
         /\ fnOut' = [fn |-> "starts_with_pattern",
                      result |-> starts_with_pattern(target, pattern)]
    /\ UNCHANGED runVars

CallShouldInclude ==
    /\ pc = "test"
    /\ fnOut = NoCall
    /\ \E dir_name \in FnDirNames, include \in FnPatternSets, exclude \in FnPatternSets :
         /\ fnIn' = [fn |-> "should_include_top_level_dir", dir_name |-> dir_name,
                     include |-> include, exclude |-> exclude]
         /\ fnOut' = [fn |-> "should_include_top_level_dir",
                      result |-> should_include_top_level_dir(dir_name, include, exclude)]
    /\ UNCHANGED runVars

\* every string of at most n characters of A
RECURSIVE StringsOver(_, _)
StringsOver(A, n) ==
    IF n = 0 THEN {<<>>}
    ELSE StringsOver(A, n - 1)
         \cup {Append(w, c) : w \in {x \in StringsOver(A, n - 1) : Len(x) = n - 1}, c \in A}

\* the names a file may bear: not empty, and neither . nor ..
FnFileNames == StringsOver({"t", ".", "x"}, MaxNameLen) \ {<<>>, <<".">>, <<".", ".">>}

\* the values of the counter, into those of two digits
FnCounters == 1..(MaxNameLen + 8)

\* lines 276-289 on a name and a value of the counter
CallNewName ==
    /\ pc = "test"
    /\ fnOut = NoCall
    /\ \E name \in FnFileNames, counter \in FnCounters :
         /\ fnIn' = [fn |-> "new_name", file_name |-> name, counter |-> counter]
         /\ fnOut' = [fn |-> "new_name", result |-> new_name(name, counter)]
    /\ UNCHANGED runVars

NextFn == CallStartsWithPattern \/ CallShouldInclude \/ CallNewName

SpecFn == InitFn /\ [][NextFn]_vars

-----------------------------------------------------------------------------

Next ==
    \/ Validate
    \/ SummaryDir
    \/ SummaryFile
    \/ SummaryReturn
    \/ SummaryEnd
    \/ SummaryError
    \/ ReadLine
    \/ Confirm
    \/ FlattenDir
    \/ FlattenFile
    \/ FlattenReturn
    \/ FlattenEnd
    \/ FlattenError
    \/ Cleanup
    \/ CleanupEnd
    \/ RunAgain

Spec == Init /\ [][Next]_vars

-----------------------------------------------------------------------------
(* Properties *)

\* the files of the tree as it was found, and those of them below a subdirectory
Files0 == {p \in DOMAIN fs0 : fs0[p].kind = "file"}

Below0 == {p \in Files0 : Len(p) >= 2}

TopDirs0 == {p[1] : p \in {q \in DOMAIN fs0 : Len(q) = 1 /\ fs0[q].kind = "dir"}}

\* stem_k.ext: _k put before the final '.' of the name, or after a name without one
Suffixed(name, k) ==
    IF LastDot(name) = 0
    THEN name \o <<"_">> \o Decimal(k)
    ELSE SubSeq(name, 1, LastDot(name) - 1) \o <<"_">> \o Decimal(k)
             \o SubSeq(name, LastDot(name), Len(name))

\* the base name and its suffixed forms
NamesFor(name) == {name} \cup {Suffixed(name, k) : k \in 1..Cardinality(DOMAIN fs0)}

AttemptsMade == {attempts[i] : i \in 1..Len(attempts)}

NoRenameFailed == \A a \in AttemptsMade : a.ok

NoRemovalFailed == \A i \in 1..Len(removals) : removals[i].ok

Unfiltered == ~ cli.include.some /\ ~ cli.exclude.some

\* C1: after a complete run with unbounded depth, no filter and no rename or
\* removal failure, every file that lay below a subdirectory is directly in
\* the root under its base name or a suffixed form of it, with its content;
\* the moved-count is the number of these files; and no top-level directory
\* that held a file at any depth exists any more.
C1_CompleteRunFlattensAll ==
    (pc = "done" /\ ~ cli.max_depth.some /\ Unfiltered /\ NoRenameFailed /\ NoRemovalFailed) =>
        /\ \A p \in Below0 :
              \E n \in NamesFor(file_name(p)) : <<n>> \in DOMAIN fs /\ fs[<<n>>] = fs0[p]
        /\ moved_count = Cardinality(Below0)
        /\ \A d \in TopDirs0 : (\E p \in Below0 : p[1] = d) => <<d>> \notin DOMAIN fs

\* the end-to-end scenario: a file in the root, one in a top-level directory
\* and one a level further down; the run has completed
C1_Witness ==
    /\ pc = "done" /\ ~ cli.max_depth.some /\ Unfiltered /\ NoRenameFailed /\ NoRemovalFailed
    /\ Files0 = {<<T1X>>, <<S, T1X>>, <<S, DS, TX>>}
    /\ moved_count = 2
    /\ DOMAIN fs = {<<T1X>>, <<Suffixed(T1X, 1)>>, <<TX>>}

\* C2: a regular file whose parent is the root is never moved, renamed,
\* overwritten or deleted: in every state of every run it is at its path with
\* its content.
C2_RootFilesUntouched ==
    \A p \in Files0 : Len(p) = 1 => (p \in DOMAIN fs /\ fs[p] = fs0[p])

\* a file of the same base name as a file of the root has been moved into the root
C2_Witness ==
    /\ <<TX>> \in Files0
    /\ \E a \in AttemptsMade : a.ok /\ file_name(a.src) = TX /\ a.dest = <<Suffixed(TX, 1)>>
    /\ pc = "done"

SummaryOver == pc \in {"nothing", "confirm", "answered", "cancelled", "flatten", "cleanup", "done"}

\* flatten_directory_by_traversal has returned and nothing has been removed yet
FlattenReturned == pc = "cleanup" /\ todo = summary.top_level_dirs

FlattenOver == pc \in {"cleanup", "done"}

Attempted == {a.src : a \in AttemptsMade}

Moved == {a.src : a \in {b \in AttemptsMade : b.ok}}

Refused == {a.src : a \in {b \in AttemptsMade : ~ b.ok}}

\* two characters that are the same letter, in whatever case
LetterPairs ==
    {{"a", "A"}, {"b", "B"}, {"c", "C"}, {"d", "D"}, {"e", "E"}, {"f", "F"},
     {"g", "G"}, {"h", "H"}, {"i", "I"}, {"j", "J"}, {"k", "K"}, {"l", "L"},
     {"m", "M"}, {"n", "N"}, {"o", "O"}, {"p", "P"}, {"q", "Q"}, {"r", "R"},
     {"s", "S"}, {"t", "T"}, {"u", "U"}, {"v", "V"}, {"w", "W"}, {"x", "X"},
     {"y", "Y"}, {"z", "Z"}}

SameLetter(a, b) == a = b \/ {a, b} \in LetterPairs

\* pattern is a prefix of name, letter case ignored
PrefixIgnoringCase(pattern, name) ==
    /\ Len(pattern) <= Len(name)
    /\ \A i \in 1..Len(pattern) : SameLetter(pattern[i], name[i])

SomePrefix(patterns, name) == \E p \in patterns : PrefixIgnoringCase(p, name)

\* C6: under the precondition its caller enforces (include and exclude are
\* never both present: main exits at lines 317-320), for every name and every
\* configuration should_include_top_level_dir returns true exactly when
\* (include present => some include pattern is a prefix of the name, letter
\* case ignored) and (exclude present => no exclude pattern is such a prefix).
\* Called with both present, as the function itself allows, it returns what
\* the include patterns alone decide.
C6_FilterDecision ==
    fnOut.fn = "should_include_top_level_dir" =>
        IF fnIn.include.some /\ fnIn.exclude.some
        THEN fnOut.result <=> SomePrefix(fnIn.include.v, fnIn.dir_name)
        ELSE fnOut.result <=>
                /\ fnIn.include.some => SomePrefix(fnIn.include.v, fnIn.dir_name)
                /\ fnIn.exclude.some => ~ SomePrefix(fnIn.exclude.v, fnIn.dir_name)

\* a call with exclude alone, which rejects a name for a pattern in another case
C6_Witness ==
    /\ fnOut.fn = "should_include_top_level_dir"
    /\ ~ fnIn.include.some
    /\ fnIn.exclude = SomePats({<<"D">>, <<"s">>})
    /\ fnIn.dir_name = <<"d", "s">>
    /\ fnOut.result = FALSE

\* C7: starts_with_pattern(target, pattern) is true exactly when the pattern
\* is a prefix of the target, letter case ignored in both; a pattern found in
\* the target only after its start does not match.
C7_PrefixIgnoringCase ==
    fnOut.fn = "starts_with_pattern" =>
        (fnOut.result <=> PrefixIgnoringCase(fnIn.pattern, fnIn.target))

\* "s" occurs in "dS" but not at its start: no match
C7_Witness ==
    /\ fnOut.fn = "starts_with_pattern"
    /\ fnIn.target = <<"d", "S">>
    /\ fnIn.pattern = <<"s">>
    /\ fnOut.result = FALSE

\* the filter, on the name of a top-level directory
FilterPasses(name) ==
    IF cli.include.some
    THEN SomePrefix(cli.include.v, name)
    ELSE cli.exclude.some => ~ SomePrefix(cli.exclude.v, name)

\* the depth of the parent of p (the root at 0) is at least 1 and within the bound
DepthWithin(p) ==
    /\ Len(p) - 1 >= 1
    /\ cli.max_depth.some => Len(p) - 1 <= cli.max_depth.v

UnderEligibleTop == {p \in Files0 : Len(p) >= 2 /\ FilterPasses(p[1])}

\* C3: a file under a filter-eligible top-level directory is counted by the
\* summary pass exactly when the depth of its parent is within 1..D, and the
\* flatten pass tries to move exactly these files: it moves each of them
\* unless the rename is refused, and moves no other.  With D = 0 the count is
\* 0, and without a bound every file below a subdirectory is counted.
C3_EligibleIffDepthWithin ==
    /\ SummaryOver =>
         /\ \A p \in UnderEligibleTop : p \in counted <=> DepthWithin(p)
         /\ summary.file_count = Cardinality({p \in UnderEligibleTop : DepthWithin(p)})
    /\ FlattenOver =>
         \A p \in UnderEligibleTop :
             /\ p \in Attempted <=> DepthWithin(p)
             /\ p \in Moved <=> (DepthWithin(p) /\ p \notin Refused)

\* with -n 1 a file of a top-level directory has been moved and a file one
\* level further down has been left out of the count and of the moves
C3_Witness ==
    /\ pc = "cleanup"
    /\ cli.max_depth = SomeNum(1)
    /\ {<<S, TX>>, <<S, DS, TX>>} \subseteq UnderEligibleTop
    /\ <<S, TX>> \in Moved
    /\ <<S, DS, TX>> \notin Attempted
    /\ <<S, DS, TX>> \in DOMAIN fs
    /\ summary.file_count = 1

\* C4: the destination chosen for a file of base name stem.ext is stem.ext in
\* the root when no such path exists at the moment of the move, and otherwise
\* stem_k.ext for the least k >= 1 for which no such path exists at that
\* moment; a rename that succeeds puts the file there.
C4_FirstFreeCandidate ==
    [][Len(attempts') = Len(attempts) + 1 =>
        LET a == attempts'[Len(attempts')]
            base == file_name(a.src)
        IN /\ IF <<base>> \notin DOMAIN fs
              THEN a.dest = <<base>>
              ELSE \E k \in 1..Cardinality(DOMAIN fs) :
                     /\ a.dest = <<Suffixed(base, k)>>
                     /\ a.dest \notin DOMAIN fs
                     /\ \A j \in 1..(k - 1) : <<Suffixed(base, j)>> \in DOMAIN fs
           /\ a.ok => (a.dest \in DOMAIN fs' /\ fs'[a.dest] = fs[a.src])]_vars

\* t.x and t_1.x lay in the root, and a file t.x has been moved to t_2.x
C4_Witness ==
    /\ {<<TX>>, <<T1X>>} \subseteq Files0
    /\ \E a \in AttemptsMade :
         a.ok /\ file_name(a.src) = TX /\ a.dest = <<Suffixed(TX, 2)>>
    /\ <<Suffixed(TX, 2)>> \in DOMAIN fs

\* the moves of files of base name b that succeeded, in the order they were made
RECURSIVE ArrivalsOf(_, _)
ArrivalsOf(b, as) ==
    IF as = <<>> THEN <<>>
    ELSE IF Head(as).ok /\ file_name(Head(as).src) = b
         THEN <<Head(as)>> \o ArrivalsOf(b, Tail(as))
         ELSE ArrivalsOf(b, Tail(as))

\* several files to move bear the name b, and nothing else in the root or
\* among the files to move bears b or a suffixed form of it
SharedName(b) ==
    /\ Cardinality({p \in counted : file_name(p) = b}) >= 2
    /\ <<b>> \in DOMAIN fs0 => fs0[<<b>>].kind = "file"
    /\ \A p \in DOMAIN fs0 :
         (Len(p) = 1 \/ p \in counted) => file_name(p) \notin (NamesFor(b) \ {b})

\* C5: when several files to move share the base name stem.ext and nothing
\* else bears that name or a suffixed form of it, the names go out in the
\* order of the visits: without a stem.ext in the root the first file moved
\* gets stem.ext and the k-th moved after it gets stem_k.ext; with a stem.ext
\* in the root that file keeps its content and the k-th file moved gets
\* stem_k.ext.  (A file whose rename is refused takes no name; when no rename
\* is refused the k-th file moved is the k-th file visited.)
C5_NamesInTraversalOrder ==
    FlattenOver =>
        \A b \in {file_name(p) : p \in counted} :
            SharedName(b) =>
                LET arrivals == ArrivalsOf(b, attempts)
                IN IF <<b>> \in DOMAIN fs0
                   THEN /\ fs[<<b>>] = fs0[<<b>>]
                        /\ \A k \in 1..Len(arrivals) :
                             /\ arrivals[k].dest = <<Suffixed(b, k)>>
                             /\ fs[arrivals[k].dest] = fs0[arrivals[k].src]
                   ELSE \A k \in 1..Len(arrivals) :
                             /\ arrivals[k].dest = IF k = 1 THEN <<b>> ELSE <<Suffixed(b, k - 1)>>
                             /\ fs[arrivals[k].dest] = fs0[arrivals[k].src]

\* three files t.x below subdirectories and none in the root: every one has
\* been visited and moved, to t.x, t_1.x and t_2.x
C5_Witness ==
    /\ pc = "done"
    /\ SharedName(TX)
    /\ <<TX>> \notin DOMAIN fs0
    /\ Len(attempts) = 3
    /\ NoRenameFailed
    /\ attempts[1].dest = <<TX>>
    /\ attempts[2].dest = <<Suffixed(TX, 1)>>
    /\ attempts[3].dest = <<Suffixed(TX, 2)>>

\* the top-level directories of the tree that the filter rejects
RejectedTops == {d \in TopDirs0 : ~ FilterPasses(d)}

\* some directory on the way from the top-level directory to the file bears a
\* name the filter would reject
NestedNameRejected(p) == \E i \in 2..(Len(p) - 1) : ~ FilterPasses(p[i])

\* C8: the filter looks at the name of the top-level directory alone.  A
\* rejected top-level directory is never entered, recorded or removed, and
\* nothing below it is ever counted, moved or deleted; a file below an accepted
\* top-level directory is counted and moved as its depth decides, whatever the
\* names of the nested directories on its path.
C8_FilterOnTopLevelNameOnly ==
    ~ Unfiltered =>
    /\ \A d \in RejectedTops :
         /\ \A p \in DOMAIN fs0 :
              (p = <<d>> \/ IsUnder(p, <<d>>)) =>
                  /\ p \in DOMAIN fs /\ fs[p] = fs0[p]
                  /\ p \notin counted
                  /\ p \notin Attempted
         /\ \A i \in 1..Len(stack) : ~ IsUnder(stack[i].current, Root) \/ stack[i].current[1] # d
         /\ d \notin summary.top_level_dirs
         /\ d \notin todo
         /\ \A i \in 1..Len(removals) : removals[i].dir # d
    /\ \A p \in UnderEligibleTop :
         NestedNameRejected(p) =>
             /\ SummaryOver => (p \in counted <=> DepthWithin(p))
             /\ FlattenOver => (p \in Attempted <=> DepthWithin(p))
             /\ FlattenOver => (p \in Moved <=> (DepthWithin(p) /\ p \notin Refused))

\* with --include S: the file of s/ds has been moved although ds is no name
\* the filter accepts, and the top-level ds is as it was found
C8_Witness ==
    /\ pc = "done"
    /\ cli.include = SomePats({<<"S">>})
    /\ <<S, DS, TX>> \in Moved
    /\ <<DS, TX>> \in Files0
    /\ <<DS, TX>> \in DOMAIN fs
    /\ <<S>> \notin DOMAIN fs

\* C9: a file whose rename fails stays at its source path and is not counted
\* as moved; the files that remain are processed all the same, and the pass
\* returns with a moved-count equal to the number of renames that succeeded.
C9_RefusedRenameSkipped ==
    /\ (pc = "flatten" \/ FlattenReturned) =>
         /\ \A p \in Refused : p \in DOMAIN fs /\ fs[p] = fs0[p] /\ p \notin Moved
         /\ moved_count = Cardinality(Moved)
    /\ FlattenReturned => Attempted = counted

\* a rename was refused, the next file was moved, and the pass has returned
C9_Witness ==
    /\ FlattenReturned
    /\ Len(attempts) = 3
    /\ ~ attempts[1].ok /\ attempts[2].ok /\ attempts[3].ok
    /\ moved_count = 2

\* the files to move whose base name is the name of a directory of the root
BlockedByDir == {p \in counted : is_dir(fs0, <<file_name(p)>>)}

\* C10 as claimed: a file to move whose base name is the name of a directory
\* of the root is not moved; it remains in its subdirectory, the directory of
\* the root remains, and the moved-count counts the other files only.
C10_AsClaimed ==
    FlattenReturned =>
        /\ \A p \in BlockedByDir :
             p \in DOMAIN fs /\ fs[p] = fs0[p] /\ is_dir(fs, <<file_name(p)>>)
        /\ moved_count <= Cardinality(counted \ BlockedByDir)

\* the files of the tree as found that the flatten pass has not moved
NotMoved == {p \in Files0 : p \notin Moved}

\* no entry of the tree holds the content of the file found at p
Deleted(p) == \A q \in DOMAIN fs : fs[q] # fs0[p]

\* C11: after a complete run in which every removal succeeded, no top-level
\* directory recorded by the summary pass exists under the root, and every
\* file that was still inside one when the cleanup ran (deeper than the depth
\* bound, or refused by rename) exists nowhere in the tree.
C11_RecordedDirsRemovedWithContents ==
    (pc = "done" /\ NoRemovalFailed) =>
        \A d \in summary.top_level_dirs :
            /\ <<d>> \notin DOMAIN fs
            /\ \A p \in NotMoved : (Len(p) >= 2 /\ p[1] = d) => Deleted(p)

\* with -n 1: s/t.x was refused by rename and s/ds/t.x lay too deep; s has
\* been removed and neither file is anywhere
C11_Witness ==
    /\ pc = "done" /\ NoRemovalFailed
    /\ cli.max_depth = SomeNum(1)
    /\ <<S, TX>> \in Refused
    /\ <<S, DS, TX>> \in Files0 \ Attempted
    /\ S \in summary.top_level_dirs
    /\ <<S>> \notin DOMAIN fs
    /\ Deleted(<<S, TX>>) /\ Deleted(<<S, DS, TX>>)

\* the files the filter and the depth bound let through
Eligible == {p \in UnderEligibleTop : DepthWithin(p)}

\* the top-level directories of the tree as found that hold no eligible file
NoEligibleTops ==
    {d \in TopDirs0 :
        ~ FilterPasses(d) \/ \A p \in Files0 : (Len(p) >= 2 /\ p[1] = d) => ~ DepthWithin(p)}

\* the directory d of the root and all it holds are as they were found
Untouched(d) ==
    /\ \A p \in DOMAIN fs0 : p[1] = d => (p \in DOMAIN fs /\ fs[p] = fs0[p])
    /\ \A q \in DOMAIN fs : q[1] = d => q \in DOMAIN fs0

\* C12: the cleanup removes only directories whose names are in the set the
\* summary pass built, and that set holds exactly the top-level directories
\* with at least one eligible file below them; a top-level directory with no
\* eligible file (empty, holding only files deeper than the bound, or rejected
\* by the filter) is never removed and what it holds is never changed.
C12_CleanupFollowsSummarySet ==
    /\ [](/\ SummaryOver => summary.top_level_dirs = {p[1] : p \in Eligible}
          /\ todo \subseteq summary.top_level_dirs
          /\ \A d \in NoEligibleTops : Untouched(d))
    /\ [][Len(removals') = Len(removals) + 1 =>
            LET dir == removals'[Len(removals')].dir
            IN /\ dir \in summary.top_level_dirs
               /\ \A p \in DOMAIN fs : p[1] # dir => (p \in DOMAIN fs' /\ fs'[p] = fs[p])
               /\ DOMAIN fs' \subseteq DOMAIN fs]_vars

\* with -n 1: ds held an eligible file and has been removed; s held only a
\* file deeper than the bound and the directory t.x held nothing, and both are
\* as they were found
C12_Witness ==
    /\ pc = "done"
    /\ cli.max_depth = SomeNum(1) /\ Unfiltered
    /\ Files0 = {<<S, DS, TX>>, <<DS, TX>>}
    /\ is_dir(fs0, <<TX>>)
    /\ NoEligibleTops = {S, TX}
    /\ <<DS>> \notin DOMAIN fs
    /\ <<S, DS, TX>> \in DOMAIN fs /\ is_dir(fs, <<TX>>)

\* the white space of ASCII
Blanks == {" ", "\t", "\n", "\r", "\f", VerticalTab}

\* the line is y or yes in whatever case, with nothing but white space around it
AnswersYes(line) ==
    \E i \in 1..Len(line), j \in 1..Len(line) :
        /\ \A k \in 1..Len(line) : (k < i \/ k > j) <=> line[k] \in Blanks
        /\ \/ j = i /\ line[i] \in {"y", "Y"}
           \/ j = i + 2 /\ line[i] \in {"y", "Y"} /\ line[i + 1] \in {"e", "E"}
                        /\ line[i + 2] \in {"s", "S"}

\* include and exclude were both given, or the directory is missing or is no
\* directory
UsageError == (cli.include.some /\ cli.exclude.some) \/ cli.directory # "dir"

NothingDone == fs = fs0 /\ attempts = <<>> /\ removals = <<>> /\ moved_count = 0

\* C13: nothing is renamed or removed unless the usage checks passed, the
\* summary pass completed with at least one eligible file, and the prompt was
\* answered y or yes or was skipped by -y or -q.  A usage error ends in exit
\* code 1; after it, after a summary of zero files and after any other answer
\* the tree is as it was found.
C13_NothingBeforeConsent ==
    /\ [](/\ ~ NothingDone =>
               /\ ~ UsageError
               /\ summary.file_count >= 1
               /\ pc \in {"flatten", "cleanup", "done", "error"}
          /\ pc # "start" => (pc = "exit1" <=> UsageError)
          /\ pc \in {"exit1", "nothing", "cancelled"} => NothingDone)
    /\ [][/\ ~ NothingDone' => pc \in {"flatten", "cleanup"}
          /\ (pc' = "flatten" /\ pc # "flatten") =>
                /\ summary.file_count >= 1
                /\ \/ pc = "summary" /\ (cli.skip_confirmation \/ cli.quiet)
                   \/ pc = "answered" /\ AnswersYes(typed.v)
          /\ (pc' = "cleanup" /\ pc # "cleanup") => pc = "flatten"
          /\ (pc' = "nothing" /\ pc # "nothing") => summary.file_count = 0
          /\ (pc' = "cancelled" /\ pc # "cancelled") =>
                (pc = "answered" /\ ~ AnswersYes(typed.v))]_vars

\* without -y or -q: the prompt was answered, files have been moved and a
\* directory removed
C13_Witness ==
    /\ pc = "done"
    /\ ~ cli.skip_confirmation /\ ~ cli.quiet
    /\ moved_count >= 1
    /\ removals # <<>>
    /\ fs # fs0

\* C14 as claimed: for every base name the k-th candidate is stem_k.ext, split
\* at the final '.', and base_k when the name has no '.'; also for a name
\* that begins with '.' and for a name that ends with '.'.
C14_AsClaimed ==
    fnOut.fn = "new_name" => fnOut.result = Suffixed(fnIn.file_name, fnIn.counter)

\* the name has a '.', and its final '.' is its first character
OnlyLeadingDot(name) == name[1] = "." /\ \A i \in 2..Len(name) : name[i] # "."

\* C14 amended: the k-th candidate is stem_k.ext, split at the final '.', when
\* that '.' is neither the first nor the last character of the name; base_k
\* when the name has no '.' or its only '.' is its first character (.bashrc
\* gives .bashrc_k); and stem_k, with no '.' after it, when the name ends
\* with '.'.
C14_CandidateNames ==
    fnOut.fn = "new_name" =>
        LET name == fnIn.file_name
            k == <<"_">> \o Decimal(fnIn.counter)
        IN fnOut.result =
             IF (\A i \in 1..Len(name) : name[i] # ".") \/ OnlyLeadingDot(name)
             THEN name \o k
             ELSE IF name[Len(name)] = "."
                  THEN SubSeq(name, 1, Len(name) - 1) \o k
                  ELSE Suffixed(name, fnIn.counter)

\* .x has no extension: its tenth candidate is .x_10
C14_Witness ==
    /\ fnOut.fn = "new_name"
    /\ fnIn.file_name = <<".", "x">>
    /\ fnIn.counter = 10
    /\ fnOut.result = <<".", "x", "_", "1", "0">>

\* no rename was tried twice on a file, nor on a file of the root
EachTriedOnce ==
    /\ \A i, j \in 1..Len(attempts) : attempts[i].src = attempts[j].src => i = j
    /\ \A i \in 1..Len(attempts) : Len(attempts[i].src) >= 2

\* C15: the files the flatten pass tries to move are the files the summary
\* pass counted, each once; a file moved into the root is not moved again.
\* The moved-count never exceeds the reported count and equals it when no
\* rename fails.
C15_FlattenMovesWhatSummaryCounted ==
    /\ pc \in {"flatten", "cleanup", "done"} =>
         /\ Attempted \subseteq counted
         /\ EachTriedOnce
         /\ moved_count <= summary.file_count
    /\ FlattenOver =>
         /\ Attempted = counted
         /\ Len(attempts) = summary.file_count
         /\ NoRenameFailed => moved_count = summary.file_count

\* two files were counted and both have been moved, past a file that lay in
\* the root
C15_Witness ==
    /\ FlattenReturned
    /\ <<TX>> \in Files0
    /\ summary.file_count = 2
    /\ moved_count = 2
    /\ Len(attempts) = 2

\* the paths at which the tree holds the content of the file found at p
WhereNow(p) == {q \in DOMAIN fs : fs[q] = fs0[p]}

RootFiles(f) == {p \in DOMAIN f : Len(p) = 1 /\ f[p].kind = "file"}

\* C16: in every state of the flatten pass no file is lost, duplicated or
\* overwritten.  Every rename is to a path at which nothing exists at that
\* moment; every file found before the pass is in the tree exactly once, with
\* its content, at its source path or directly in the root; nothing else has
\* appeared; and the files directly in the root are as many as there were,
\* plus the moved-count.
C16_NothingLostOrOverwritten ==
    /\ [](pc = "flatten" \/ FlattenReturned =>
            /\ \A p \in Files0 :
                 /\ Cardinality(WhereNow(p)) = 1
                 /\ \A q \in WhereNow(p) : q = p \/ Len(q) = 1
            /\ Cardinality(DOMAIN fs) = Cardinality(DOMAIN fs0)
            /\ Cardinality(RootFiles(fs)) = Cardinality(RootFiles(fs0)) + moved_count)
    /\ [][Len(attempts') = Len(attempts) + 1 =>
            LET a == attempts'[Len(attempts')]
            IN /\ a.dest \notin DOMAIN fs
               /\ Len(a.dest) = 1
               /\ a.ok => (DOMAIN fs' = (DOMAIN fs \ {a.src}) \cup {a.dest}
                           /\ \A q \in DOMAIN fs \ {a.src} : fs'[q] = fs[q])]_vars

\* in the middle of the pass: t.x lay in the root, one t.x has been moved to
\* t_1.x and another file is still to be moved
C16_Witness ==
    /\ pc = "flatten"
    /\ <<TX>> \in Files0
    /\ Len(attempts) = 1
    /\ attempts[1].ok /\ attempts[1].dest = <<Suffixed(TX, 1)>>
    /\ moved_count = 1
    /\ counted \ Attempted # {}

\* the running walk has gone through every entry of every directory it entered
WalkComplete == Len(stack) = 1 /\ Top.pending = {}

\* C17: a failure to list a directory or to read the type of an entry ends
\* the run with an error, whatever is still to be visited.  From the summary
\* pass the tree is as it was found; from the flatten pass the files not yet
\* visited stay where they are, the moves made persist, the cleanup loop is
\* not entered and no directory is removed.  The passes are left for the next
\* step of main only when every entry has been gone through.
C17_ListingFailureAborts ==
    /\ [](pc = "error" =>
            /\ removals = <<>> /\ todo = {}
            /\ \A d \in TopDirs0 : is_dir(fs, <<d>>)
            /\ \A a \in AttemptsMade : a.ok => (a.dest \in DOMAIN fs /\ fs[a.dest] = fs0[a.src])
            /\ \A p \in Files0 \ Moved : p \in DOMAIN fs /\ fs[p] = fs0[p]
            /\ moved_count = Cardinality(Moved))
    /\ [][/\ pc # "error"
          /\ (pc = "summary" /\ pc' = "error") => (fs = fs0 /\ fs' = fs /\ attempts' = <<>>)
          /\ (pc = "flatten" /\ pc' = "error") =>
                (fs' = fs /\ attempts' = attempts /\ moved_count' = moved_count)
          /\ (pc = "summary" /\ pc' \notin {"summary", "error"}) => WalkComplete
          /\ (pc = "flatten" /\ pc' \notin {"flatten", "error"}) => WalkComplete]_vars

\* the flatten pass failed after its first move: the file moved is in the
\* root, another counted file is where it was, and its directory is there
C17_Witness ==
    /\ pc = "error"
    /\ moved_count = 1
    /\ <<S, TX>> \in counted \ Attempted
    /\ <<S, TX>> \in DOMAIN fs
    /\ \E a \in AttemptsMade : a.ok /\ a.src = <<DS, TX>> /\ a.dest \in DOMAIN fs

\* C18: started again with the same depth bound and filter on the tree left
\* by a complete run whose removals all succeeded, whether or not it had
\* renames refused, the program finds no eligible file: it counts 0, tries no
\* rename and no removal, ends after the summary pass and leaves the tree as
\* it found it.
C18_SecondRunChangesNothing ==
    run = "second" =>
        /\ fs = fs0
        /\ summary.file_count = 0 /\ counted = {}
        /\ moved_count = 0 /\ attempts = <<>>
        /\ removals = <<>> /\ todo = {}
        /\ pc \in {"start", "summary", "nothing", "error"}

\* with --include S: the first run moved the file of s and removed s; the
\* second run has ended with nothing to do, the file of s in the root and ds
\* as it was
C18_Witness ==
    /\ run = "second"
    /\ pc = "nothing"
    /\ cli.include = SomePats({<<"S">>})
    /\ <<S>> \notin DOMAIN fs
    /\ <<DS, TX>> \in DOMAIN fs
    /\ \E q \in DOMAIN fs : Len(q) = 1 /\ fs[q].content = <<S, TX>>

====
